---- MODULE Spec2Model ----
(***************************************************************************)
(* Connector routing engine of diagen: geometry and obstacle utilities,    *)
(* the heuristic orthogonal router, the grid search (A* ) router with its  *)
(* binary min-heap, and the hybrid orchestrator.                           *)
(*                                                                         *)
(* Numbers.  The code computes on IEEE doubles; the model computes on      *)
(* exact integers.  Inputs are integer canvas coordinates.  The only       *)
(* non-integers the orthogonal router produces are halves (midpoints), so  *)
(* every length of the model is counted in HALF canvas units: Canvas(n)    *)
(* is the model value of n canvas units and Half(v) is v / 2.  Ratios and  *)
(* cell indices do not depend on the unit.                                 *)
(***************************************************************************)
EXTENDS Integers, Sequences, FiniteSets, TLC

Canvas(n) == n + n

Half(v) == v \div 2

Abs(v) == IF v < 0 THEN 0 - v ELSE v

Min2(a, b) == IF a < b THEN a ELSE b

Max2(a, b) == IF a > b THEN a ELSE b

\* Math.floor(a / b) and Math.ceil(a / b) for b > 0
FloorDiv(a, b) == a \div b

CeilDiv(a, b) == 0 - ((0 - a) \div b)

\* Math.round(a / b) for b > 0: JavaScript rounds halves towards +Infinity
RoundDiv(a, b) == (a + a + b) \div (b + b)

\* Math.sqrt on the squares the routers feed it: exact on perfect squares,
\* rounded down otherwise
Sqrt(n) == CHOOSE r \in 0..n : r * r <= n /\ (r + 1) * (r + 1) > n

Pt(px, py) == [x |-> px, y |-> py]

\* a point given in canvas units
P(cx, cy) == Pt(Canvas(cx), Canvas(cy))

Rect(rx, ry, rw, rh) == [x |-> rx, y |-> ry, w |-> rw, h |-> rh]

\* createObstacleFromRect, with rect and padding given in canvas units
createObstacleFromRect(id, cx, cy, cw, ch, cpad) ==
    [id |-> id, bounds |-> Rect(Canvas(cx), Canvas(cy), Canvas(cw), Canvas(ch)),
     padding |-> Canvas(cpad)]

-----------------------------------------------------------------------------
(* shared geometry *)

isPointInRect(point, rect) ==
    /\ point.x >= rect.x
    /\ point.x <= rect.x + rect.w
    /\ point.y >= rect.y
    /\ point.y <= rect.y + rect.h

expandRect(rect, padding) ==
    Rect(rect.x - padding, rect.y - padding, rect.w + padding * 2, rect.h + padding * 2)

snapToGrid(value, gridSize) == RoundDiv(value, gridSize) * gridSize

direction(pi, pj, pk) ==
    (pk.x - pi.x) * (pj.y - pi.y) - (pj.x - pi.x) * (pk.y - pi.y)

onSegment(pi, pj, pk) ==
    /\ Min2(pi.x, pj.x) <= pk.x
    /\ pk.x <= Max2(pi.x, pj.x)
    /\ Min2(pi.y, pj.y) <= pk.y
    /\ pk.y <= Max2(pi.y, pj.y)

lineIntersectsLine(p1, p2, p3, p4) ==
    LET d1 == direction(p3, p4, p1)
        d2 == direction(p3, p4, p2)
        d3 == direction(p1, p2, p3)
        d4 == direction(p1, p2, p4)
    IN  \/ /\ (d1 > 0 /\ d2 < 0) \/ (d1 < 0 /\ d2 > 0)
           /\ (d3 > 0 /\ d4 < 0) \/ (d3 < 0 /\ d4 > 0)
        \/ d1 = 0 /\ onSegment(p3, p4, p1)
        \/ d2 = 0 /\ onSegment(p3, p4, p2)
        \/ d3 = 0 /\ onSegment(p1, p2, p3)
        \/ d4 = 0 /\ onSegment(p1, p2, p4)

\* only the four edges are tested: a segment wholly inside the rectangle passes
lineIntersectsRectEdgesOnly(p1, p2, rect) ==
    LET left == rect.x
        right == rect.x + rect.w
        top == rect.y
        bottom == rect.y + rect.h
    IN  \/ lineIntersectsLine(p1, p2, Pt(left, top), Pt(right, top))
        \/ lineIntersectsLine(p1, p2, Pt(right, top), Pt(right, bottom))
        \/ lineIntersectsLine(p1, p2, Pt(right, bottom), Pt(left, bottom))
        \/ lineIntersectsLine(p1, p2, Pt(left, bottom), Pt(left, top))

lineIntersectsRect(p1, p2, rect) ==
    LET left == rect.x
        right == rect.x + rect.w
        top == rect.y
        bottom == rect.y + rect.h
    IN  \/ isPointInRect(p1, rect)
        \/ isPointInRect(p2, rect)
        \/ lineIntersectsLine(p1, p2, Pt(left, top), Pt(right, top))
        \/ lineIntersectsLine(p1, p2, Pt(right, top), Pt(right, bottom))
        \/ lineIntersectsLine(p1, p2, Pt(right, bottom), Pt(left, bottom))
        \/ lineIntersectsLine(p1, p2, Pt(left, bottom), Pt(left, top))

-----------------------------------------------------------------------------
(* router utilities *)

euclideanDistance(p1, p2) ==
    LET dx == p2.x - p1.x
        dy == p2.y - p1.y
    IN  IF dx = 0 THEN Abs(dy)
        ELSE IF dy = 0 THEN Abs(dx)
        ELSE Sqrt(dx * dx + dy * dy)

\* 'v' when the two points share x, 'h' otherwise (curr.x === prev.x ? 'v' : 'h')
segDir(a, b) == IF b.x = a.x THEN "v" ELSE "h"

getBendCount(points) ==
    IF Len(points) <= 2 THEN 0
    ELSE Cardinality({i \in 2..(Len(points) - 1) :
            segDir(points[i - 1], points[i]) # segDir(points[i], points[i + 1])})

RECURSIVE pathLengthFrom(_, _)
pathLengthFrom(points, i) ==
    IF i >= Len(points) THEN 0
    ELSE euclideanDistance(points[i], points[i + 1]) + pathLengthFrom(points, i + 1)

calculatePathLength(points) == pathLengthFrom(points, 1)

RECURSIVE simplifyLoop(_, _, _)
simplifyLoop(path, i, result) ==
    IF i > Len(path) - 1 THEN Append(result, path[Len(path)])
    ELSE LET prev == result[Len(result)]
             curr == path[i]
             next == path[i + 1]
         IN  IF segDir(prev, curr) # segDir(curr, next)
             THEN simplifyLoop(path, i + 1, Append(result, curr))
             ELSE simplifyLoop(path, i + 1, result)

\* keeps the collinear points and drops the corners (dir1 === dir2)
RECURSIVE simplifyLoopInverted(_, _, _)
simplifyLoopInverted(path, i, result) ==
    IF i > Len(path) - 1 THEN Append(result, path[Len(path)])
    ELSE LET prev == result[Len(result)]
             curr == path[i]
             next == path[i + 1]
         IN  IF segDir(prev, curr) = segDir(curr, next)
             THEN simplifyLoopInverted(path, i + 1, Append(result, curr))
             ELSE simplifyLoopInverted(path, i + 1, result)

simplifyDropsCorners(path) ==
    IF Len(path) <= 2 THEN path ELSE simplifyLoopInverted(path, 2, <<path[1]>>)

simplifyOrthogonalPath(path) ==
    IF Len(path) <= 2 THEN path ELSE simplifyLoop(path, 2, <<path[1]>>)

\* the bends are not charged
calculateRouteCostNoBends(route, bendCost) == calculatePathLength(route)

calculateRouteCost(route, bendCost) ==
    calculatePathLength(route) + getBendCount(route) * bendCost

RECURSIVE boundsFold(_, _, _, _)
boundsFold(obstacles, i, padding, acc) ==
    IF i > Len(obstacles) THEN acc
    ELSE LET b == obstacles[i].bounds
         IN  boundsFold(obstacles, i + 1, padding,
                 [minX |-> Min2(acc.minX, b.x - padding),
                  minY |-> Min2(acc.minY, b.y - padding),
                  maxX |-> Max2(acc.maxX, b.x + b.w + padding),
                  maxY |-> Max2(acc.maxY, b.y + b.h + padding)])

calculateBounds(from, to, obstacles, padding, expand) ==
    LET m == boundsFold(obstacles, 1, padding,
                 [minX |-> Min2(from.x, to.x), minY |-> Min2(from.y, to.y),
                  maxX |-> Max2(from.x, to.x), maxY |-> Max2(from.y, to.y)])
    IN  Rect(m.minX - expand, m.minY - expand,
             m.maxX - m.minX + expand * 2, m.maxY - m.minY + expand * 2)

isPointInAnyObstacle(point, obstacles) ==
    \E k \in 1..Len(obstacles) :
        isPointInRect(point, expandRect(obstacles[k].bounds, obstacles[k].padding))

\* the rectangles are tested as they are, without their padding
isRouteValidUnpadded(route, obstacles) ==
    \A i \in 1..(Len(route) - 1) : \A k \in 1..Len(obstacles) :
        ~lineIntersectsRect(route[i], route[i + 1], obstacles[k].bounds)

isRouteValid(route, obstacles) ==
    \A i \in 1..(Len(route) - 1) : \A k \in 1..Len(obstacles) :
        ~lineIntersectsRect(route[i], route[i + 1],
                            expandRect(obstacles[k].bounds, obstacles[k].padding))

-----------------------------------------------------------------------------
(* route results: cost is <<>> when the field is absent, <<c>> otherwise *)

NoCost == <<>>

RouteResult(points, success, cost) ==
    [points |-> points, success |-> success, cost |-> cost]

\* { points: [], success: false }
NoRoute == RouteResult(<<>>, FALSE, NoCost)

\* the failed tier's own empty result returned instead
FallbackEmpty(from, to) == NoRoute

\* { points: [from, to], success: false }
Fallback(from, to) == RouteResult(<<from, to>>, FALSE, NoCost)

-----------------------------------------------------------------------------
(* heuristic orthogonal router *)

\* bendCost: number = 10
DefaultBendCost == Canvas(10)

bendCostOf(options) ==
    IF options.bendCost = <<>> THEN DefaultBendCost ELSE options.bendCost[1]

\* the first valid candidate is kept, whatever it costs
findBestRouteFirstValid(candidates, obstacles, bendCost) ==
    LET valid == {i \in 1..Len(candidates) : isRouteValid(candidates[i], obstacles)}
    IN  IF valid = {} THEN NoRoute
        ELSE LET first == CHOOSE i \in valid : \A j \in valid : i <= j
                 simplified == simplifyOrthogonalPath(candidates[first])
             IN  RouteResult(simplified, TRUE, <<calculateRouteCost(simplified, bendCost)>>)

\* the candidates are scored without being validated
findBestRouteUnchecked(candidates, obstacles, bendCost) ==
    LET all == 1..Len(candidates)
        simplified == [i \in all |-> simplifyOrthogonalPath(candidates[i])]
        cost == [i \in all |-> calculateRouteCost(simplified[i], bendCost)]
    IN  IF all = {} THEN NoRoute
        ELSE LET best == CHOOSE i \in all :
                            \A j \in all : cost[i] < cost[j] \/ (cost[i] = cost[j] /\ i <= j)
             IN  RouteResult(simplified[best], TRUE, <<cost[best]>>)

\* The loop keeps the first candidate of strictly minimal cost among the valid
\* ones (cost < minCost, minCost starting at Infinity): the valid candidate of
\* least cost and, among equals, of least index.
findBestRoute(candidates, obstacles, bendCost) ==
    LET valid == {i \in 1..Len(candidates) : isRouteValid(candidates[i], obstacles)}
        simplified == [i \in valid |-> simplifyOrthogonalPath(candidates[i])]
        cost == [i \in valid |-> calculateRouteCost(simplified[i], bendCost)]
    IN  IF valid = {} THEN NoRoute
        ELSE LET best == CHOOSE i \in valid :
                            \A j \in valid : cost[i] < cost[j] \/ (cost[i] = cost[j] /\ i <= j)
             IN  RouteResult(simplified[best], TRUE, <<cost[best]>>)

\* the direct tier never succeeds
tryDirectRouteNever(from, to, obstacles) == NoRoute

\* the direct tier reports the length of the segment as its cost
tryDirectRouteWithCost(from, to, obstacles) ==
    IF isRouteValid(<<from, to>>, obstacles)
    THEN RouteResult(<<from, to>>, TRUE, <<calculateRouteCost(<<from, to>>, 0)>>)
    ELSE NoRoute

tryDirectRoute(from, to, obstacles) ==
    IF isRouteValid(<<from, to>>, obstacles)
    THEN RouteResult(<<from, to>>, TRUE, NoCost)
    ELSE NoRoute

simpleCandidates(from, to, options) ==
    LET dx == to.x - from.x
        dy == to.y - from.y
    IN  (IF options.startDirection # "v"
         THEN << <<from, Pt(from.x + dx, from.y), Pt(from.x + dx, to.y), to>>,
                 <<from, Pt(to.x, from.y), to>> >>
         ELSE <<>>)
        \o
        (IF options.startDirection # "h"
         THEN << <<from, Pt(from.x, from.y + dy), Pt(to.x, from.y + dy), to>>,
                 <<from, Pt(from.x, to.y), to>> >>
         ELSE <<>>)

trySimpleOrthogonal(from, to, obstacles, options) ==
    findBestRoute(simpleCandidates(from, to, options), obstacles, bendCostOf(options))

intermediatePoints(from, to) ==
    LET midX == Half(from.x + to.x)
        midY == Half(from.y + to.y)
    IN  << Pt(midX, midY), Pt(from.x, midY), Pt(to.x, midY),
           Pt(midX, from.y), Pt(midX, to.y) >>

intermediateCandidates(from, to) ==
    LET mids == intermediatePoints(from, to)
    IN  [k \in 1..(2 * Len(mids)) |->
            LET mid == mids[(k + 1) \div 2]
            IN  IF k % 2 = 1
                THEN <<from, Pt(mid.x, from.y), Pt(mid.x, to.y), to>>
                ELSE <<from, Pt(from.x, mid.y), Pt(to.x, mid.y), to>>]

tryIntermediateRoute(from, to, obstacles, options) ==
    findBestRoute(intermediateCandidates(from, to), obstacles, bendCostOf(options))

\* const offsets = [30, 60, 100, 150]
escapePointOffsets == <<Canvas(30), Canvas(60), Canvas(100), Canvas(150)>>

generateEscapePoints(point, bounds, obstacles) ==
    LET all == [k \in 1..(4 * Len(escapePointOffsets)) |->
                  LET offset == escapePointOffsets[(k + 3) \div 4]
                      side == (k - 1) % 4
                  IN  CASE side = 0 -> Pt(point.x, bounds.y - offset)
                        [] side = 1 -> Pt(point.x, bounds.y + bounds.h + offset)
                        [] side = 2 -> Pt(bounds.x - offset, point.y)
                        [] OTHER    -> Pt(bounds.x + bounds.w + offset, point.y)]
    IN  SelectSeq(all, LAMBDA p : ~isPointInAnyObstacle(p, obstacles))

buildEscapeRoute(from, to, startEscape, endEscape) ==
    <<from, Pt(startEscape.x, from.y), startEscape>>
    \o
    (IF startEscape.x # endEscape.x /\ startEscape.y # endEscape.y
     THEN LET midY == Half(startEscape.y + endEscape.y)
          IN  <<Pt(startEscape.x, midY), Pt(endEscape.x, midY)>>
     ELSE <<>>)
    \o
    <<endEscape, Pt(endEscape.x, to.y), to>>

\* const escapeOffsets = [50, 100, 150, 200]
escapeOffsets == <<Canvas(50), Canvas(100), Canvas(150), Canvas(200)>>

complexCandidates(from, to, obstacles, config) ==
    LET bounds == calculateBounds(from, to, obstacles, config.padding, Canvas(50))
        startEscapePoints == generateEscapePoints(from, bounds, obstacles)
        endEscapePoints == generateEscapePoints(to, bounds, obstacles)
        nS == Len(startEscapePoints)
        nE == Len(endEscapePoints)
        escapes == [k \in 1..(nS * nE) |->
                      buildEscapeRoute(from, to,
                          startEscapePoints[((k - 1) \div nE) + 1],
                          endEscapePoints[((k - 1) % nE) + 1])]
        detours == [k \in 1..(4 * Len(escapeOffsets)) |->
                      LET offset == escapeOffsets[(k + 3) \div 4]
                          side == (k - 1) % 4
                      IN  CASE side = 0 ->
                                <<from, Pt(from.x + offset, from.y), Pt(from.x + offset, to.y), to>>
                            [] side = 1 ->
                                <<from, Pt(from.x - offset, from.y), Pt(from.x - offset, to.y), to>>
                            [] side = 2 ->
                                <<from, Pt(from.x, from.y + offset), Pt(to.x, from.y + offset), to>>
                            [] OTHER ->
                                <<from, Pt(from.x, from.y - offset), Pt(to.x, from.y - offset), to>>]
        topY == bounds.y - Canvas(30)
        bottomY == bounds.y + bounds.h + Canvas(30)
        leftX == bounds.x - Canvas(30)
        rightX == bounds.x + bounds.w + Canvas(30)
        rails == [k \in 1..(4 * Len(escapeOffsets)) |->
                      LET offset == escapeOffsets[(k + 3) \div 4]
                          side == (k - 1) % 4
                      IN  CASE side = 0 ->
                                <<from, Pt(from.x + offset, from.y), Pt(from.x + offset, topY),
                                  Pt(to.x, topY), Pt(to.x, to.y), to>>
                            [] side = 1 ->
                                <<from, Pt(from.x + offset, from.y), Pt(from.x + offset, bottomY),
                                  Pt(to.x, bottomY), Pt(to.x, to.y), to>>
                            [] side = 2 ->
                                <<from, Pt(from.x, from.y + offset), Pt(leftX, from.y + offset),
                                  Pt(leftX, to.y), Pt(to.x, to.y), to>>
                            [] OTHER ->
                                <<from, Pt(from.x, from.y + offset), Pt(rightX, from.y + offset),
                                  Pt(rightX, to.y), Pt(to.x, to.y), to>>]
    IN  escapes \o detours \o rails

tryComplexOrthogonal(from, to, obstacles, config, options) ==
    findBestRoute(complexCandidates(from, to, obstacles, config), obstacles,
                  bendCostOf(options))

-----------------------------------------------------------------------------
(* binary min-heap (createMinHeap).  The heap holds references to node      *)
(* objects: the model holds the nodes' keys and reads a key's score from   *)
(* the node map at the moment of the comparison, as scoreFn does.  Code    *)
(* index i is position i + 1 of the sequence.                              *)

swap(heap, i, j) == [heap EXCEPT ![i + 1] = heap[j + 1], ![j + 1] = heap[i + 1]]

RECURSIVE bubbleUp(_, _, _)
bubbleUp(heap, i, score) ==
    IF i > 0
    THEN LET parent == FloorDiv(i - 1, 2)
         IN  IF score[heap[i + 1]] >= score[heap[parent + 1]] THEN heap
             ELSE bubbleUp(swap(heap, i, parent), parent, score)
    ELSE heap

\* the new root is left where it is
bubbleDownNone(heap, i, score) == heap

RECURSIVE bubbleDown(_, _, _)
bubbleDown(heap, i, score) ==
    LET length == Len(heap)
        left == 2 * i + 1
        right == 2 * i + 2
        s1 == IF left < length /\ score[heap[left + 1]] < score[heap[i + 1]]
              THEN left ELSE i
        smallest == IF right < length /\ score[heap[right + 1]] < score[heap[s1 + 1]]
                    THEN right ELSE s1
    IN  IF smallest = i THEN heap
        ELSE bubbleDown(swap(heap, i, smallest), smallest, score)

heapPush(heap, item, score) == bubbleUp(Append(heap, item), Len(heap), score)

\* nothing is removed
heapPopKeepsAll(heap, score) == heap

\* the heap left by pop(); the item returned is heapPeek of the heap before
heapPop(heap, score) ==
    IF Len(heap) = 0 THEN heap
    ELSE LET bottom == heap[Len(heap)]
             rest == SubSeq(heap, 1, Len(heap) - 1)
         IN  IF Len(rest) > 0
             THEN bubbleDown([rest EXCEPT ![1] = bottom], 0, score)
             ELSE rest

heapPeek(heap) == heap[1]

-----------------------------------------------------------------------------
(* grid search router *)

toKey(x, y) == x * 1000000 + y

\* parent: <<>> for null, <<key>> for the node stored under key
AStarNode(x, y, g, h, f, parent, dir) ==
    [x |-> x, y |-> y, g |-> g, h |-> h, f |-> f, parent |-> parent, direction |-> dir]

\* 'diagonal' needs sqrt(2) and is not modelled
heuristicFunc(x1, y1, x2, y2, type) ==
    LET dx == Abs(x2 - x1)
        dy == Abs(y2 - y1)
    IN  IF type = "euclidean" THEN Sqrt(dx * dx + dy * dy) ELSE dx + dy

buildObstacleGrid(obstacles, bounds, gridSize) ==
    UNION {
        LET expanded == expandRect(obstacles[k].bounds, obstacles[k].padding)
            startX == FloorDiv(expanded.x - bounds.x, gridSize)
            startY == FloorDiv(expanded.y - bounds.y, gridSize)
            endX == CeilDiv(expanded.x + expanded.w - bounds.x, gridSize)
            endY == CeilDiv(expanded.y + expanded.h - bounds.y, gridSize)
        IN  {toKey(gx, gy) : gx \in startX..endX, gy \in startY..endY}
        : k \in 1..Len(obstacles)}

\* no cell is blocked
isBlockedNever(x, y, obstacleGrid, gridSize, bounds) == FALSE

isBlocked(x, y, obstacleGrid, gridSize, bounds) ==
    LET gx == FloorDiv(x - bounds.x, gridSize)
        gy == FloorDiv(y - bounds.y, gridSize)
    IN  toKey(gx, gy) \in obstacleGrid

isInBounds(x, y, bounds) ==
    /\ x >= bounds.x
    /\ x <= bounds.x + bounds.w
    /\ y >= bounds.y
    /\ y <= bounds.y + bounds.h

\* a fifth move, along the diagonal
directionsWithDiagonal(gridSize) ==
    << <<0, 0 - gridSize, "v">>, <<gridSize, 0, "h">>,
       <<0, gridSize, "v">>, <<0 - gridSize, 0, "h">>, <<gridSize, gridSize, "h">> >>

\* the move to larger y left out
directionsNoDown(gridSize) ==
    << <<0, 0 - gridSize, "v">>, <<gridSize, 0, "h">>, <<0 - gridSize, 0, "h">> >>

\* the four moves, in the order of the directions array
directions(gridSize) ==
    << <<0, 0 - gridSize, "v">>, <<gridSize, 0, "h">>,
       <<0, gridSize, "v">>, <<0 - gridSize, 0, "h">> >>

scoreOf(nodes) == [k \in DOMAIN nodes |-> nodes[k].f]

\* a queued cell is rewritten when the tentative g ties with its g as well
expandNeighborOnTies(st, currentKey, d, closed, env) ==
    LET current == st.nodes[currentKey]
        nx == current.x + d[1]
        ny == current.y + d[2]
        dir == d[3]
        neighborKey == toKey(nx, ny)
    IN  IF neighborKey \in closed THEN st
        ELSE IF ~isInBounds(nx, ny, env.bounds) THEN st
        ELSE IF isBlocked(nx, ny, env.obstacleGrid, env.gridSize, env.bounds) THEN st
        ELSE LET isBend == current.direction # "null" /\ current.direction # dir
                 bendCost == IF isBend THEN env.bendPenalty ELSE 0
                 moveCost == env.orthogonalCost * env.gridSize + bendCost
                 tentativeG == current.g + moveCost
             IN  IF neighborKey \notin DOMAIN st.nodes
                 THEN LET h == heuristicFunc(nx, ny, env.endX, env.endY, env.heuristic)
                          neighbor == AStarNode(nx, ny, tentativeG, h,
                                          tentativeG + h * env.weight, <<currentKey>>, dir)
                          nodes2 == [k \in DOMAIN st.nodes \cup {neighborKey} |->
                                        IF k = neighborKey THEN neighbor ELSE st.nodes[k]]
                      IN  [heap |-> heapPush(st.heap, neighborKey, scoreOf(nodes2)),
                           nodes |-> nodes2]
                 ELSE IF tentativeG <= st.nodes[neighborKey].g
                 THEN LET old == st.nodes[neighborKey]
                          nodes2 == [st.nodes EXCEPT ![neighborKey] =
                                        AStarNode(old.x, old.y, tentativeG, old.h,
                                            tentativeG + old.h * env.weight,
                                            <<currentKey>>, dir)]
                      IN  [heap |-> heapPush(st.heap, neighborKey, scoreOf(nodes2)),
                           nodes |-> nodes2]
                 ELSE st

\* a relaxation rewrites g, f and direction and leaves the parent link
expandNeighborKeepsParent(st, currentKey, d, closed, env) ==
    LET current == st.nodes[currentKey]
        nx == current.x + d[1]
        ny == current.y + d[2]
        dir == d[3]
        neighborKey == toKey(nx, ny)
    IN  IF neighborKey \in closed THEN st
        ELSE IF ~isInBounds(nx, ny, env.bounds) THEN st
        ELSE IF isBlocked(nx, ny, env.obstacleGrid, env.gridSize, env.bounds) THEN st
        ELSE LET isBend == current.direction # "null" /\ current.direction # dir
                 bendCost == IF isBend THEN env.bendPenalty ELSE 0
                 moveCost == env.orthogonalCost * env.gridSize + bendCost
                 tentativeG == current.g + moveCost
             IN  IF neighborKey \notin DOMAIN st.nodes
                 THEN LET h == heuristicFunc(nx, ny, env.endX, env.endY, env.heuristic)
                          neighbor == AStarNode(nx, ny, tentativeG, h,
                                          tentativeG + h * env.weight, <<currentKey>>, dir)
                          nodes2 == [k \in DOMAIN st.nodes \cup {neighborKey} |->
                                        IF k = neighborKey THEN neighbor ELSE st.nodes[k]]
                      IN  [heap |-> heapPush(st.heap, neighborKey, scoreOf(nodes2)),
                           nodes |-> nodes2]
                 ELSE IF tentativeG < st.nodes[neighborKey].g
                 THEN LET old == st.nodes[neighborKey]
                          nodes2 == [st.nodes EXCEPT ![neighborKey] =
                                        AStarNode(old.x, old.y, tentativeG, old.h,
                                            tentativeG + old.h * env.weight,
                                            old.parent, dir)]
                      IN  [heap |-> heapPush(st.heap, neighborKey, scoreOf(nodes2)),
                           nodes |-> nodes2]
                 ELSE st

\* one pass of the body of `for (const [dx, dy, dir] of directions)`;
\* st = [heap, nodes] is what the pass reads and writes
expandNeighbor(st, currentKey, d, closed, env) ==
    LET current == st.nodes[currentKey]
        nx == current.x + d[1]
        ny == current.y + d[2]
        dir == d[3]
        neighborKey == toKey(nx, ny)
    IN  IF neighborKey \in closed THEN st
        ELSE IF ~isInBounds(nx, ny, env.bounds) THEN st
        ELSE IF isBlocked(nx, ny, env.obstacleGrid, env.gridSize, env.bounds) THEN st
        ELSE LET isBend == current.direction # "null" /\ current.direction # dir
                 bendCost == IF isBend THEN env.bendPenalty ELSE 0
                 moveCost == env.orthogonalCost * env.gridSize + bendCost
                 tentativeG == current.g + moveCost
             IN  IF neighborKey \notin DOMAIN st.nodes
                 THEN LET h == heuristicFunc(nx, ny, env.endX, env.endY, env.heuristic)
                          neighbor == AStarNode(nx, ny, tentativeG, h,
                                          tentativeG + h * env.weight, <<currentKey>>, dir)
                          nodes2 == [k \in DOMAIN st.nodes \cup {neighborKey} |->
                                        IF k = neighborKey THEN neighbor ELSE st.nodes[k]]
                      IN  [heap |-> heapPush(st.heap, neighborKey, scoreOf(nodes2)),
                           nodes |-> nodes2]
                 ELSE IF tentativeG < st.nodes[neighborKey].g
                 THEN LET old == st.nodes[neighborKey]
                          nodes2 == [st.nodes EXCEPT ![neighborKey] =
                                        AStarNode(old.x, old.y, tentativeG, old.h,
                                            tentativeG + old.h * env.weight,
                                            <<currentKey>>, dir)]
                      IN  [heap |-> heapPush(st.heap, neighborKey, scoreOf(nodes2)),
                           nodes |-> nodes2]
                 ELSE st

RECURSIVE expandAll(_, _, _, _, _)
expandAll(st, currentKey, i, closed, env) ==
    IF i > Len(directions(env.gridSize)) THEN st
    ELSE expandAll(expandNeighbor(st, currentKey, directions(env.gridSize)[i], closed, env),
                   currentKey, i + 1, closed, env)

RECURSIVE reconstructPath(_, _)
reconstructPath(nodes, key) ==
    LET node == nodes[key]
        here == <<Pt(node.x, node.y)>>
    IN  IF node.parent = <<>> THEN here
        ELSE reconstructPath(nodes, node.parent[1]) \o here

\* steps = 0 makes t = 0 / 0 = NaN, the one sample's cell key NaN, which no set
\* holds: line of sight
hasLineOfSight(p1, p2, obstacleGrid, gridSize, bounds) ==
    LET dx == p2.x - p1.x
        dy == p2.y - p1.y
        major == Max2(Abs(dx), Abs(dy))
    IN  IF major = 0 THEN TRUE
        ELSE \A i \in 0..FloorDiv(major, gridSize) :
                \* x = p1.x + dx * (i / steps) with steps = major / gridSize
                LET gx == FloorDiv((p1.x - bounds.x) * major + dx * i * gridSize,
                                   gridSize * major)
                    gy == FloorDiv((p1.y - bounds.y) * major + dy * i * gridSize,
                                   gridSize * major)
                IN  toKey(gx, gy) \notin obstacleGrid

RECURSIVE smoothLoop(_, _, _, _, _, _)
smoothLoop(path, current, smoothed, obstacleGrid, gridSize, bounds) ==
    IF current < Len(path)
    THEN LET sighted == {i \in (current + 2)..Len(path) :
                            hasLineOfSight(path[current], path[i], obstacleGrid,
                                           gridSize, bounds)}
             farthest == IF sighted = {} THEN current + 1
                         ELSE CHOOSE i \in sighted : \A j \in sighted : j <= i
         IN  smoothLoop(path, farthest, Append(smoothed, path[farthest]),
                        obstacleGrid, gridSize, bounds)
    ELSE smoothed

smoothPath(path, obstacleGrid, gridSize, bounds) ==
    IF Len(path) <= 2 THEN path
    ELSE smoothLoop(path, 1, <<path[1]>>, obstacleGrid, gridSize, bounds)

\* the smoothed grid path returned without its exact endpoints
connectEndpointsSnapped(path, from, to) ==
    IF Len(path) = 0 THEN <<from, to>> ELSE simplifyOrthogonalPath(path)

connectEndpoints(path, from, to) ==
    IF Len(path) = 0 THEN <<from, to>>
    ELSE LET first == path[1]
             last == path[Len(path)]
             head == IF first.x # from.x \/ first.y # from.y
                     THEN IF Abs(first.x - from.x) > Abs(first.y - from.y)
                          THEN <<Pt(first.x, from.y)>>
                          ELSE <<Pt(from.x, first.y)>>
                     ELSE <<>>
             tail == IF last.x # to.x \/ last.y # to.y
                     THEN IF Abs(last.x - to.x) > Abs(last.y - to.y)
                          THEN <<Pt(to.x, last.y)>>
                          ELSE <<Pt(last.x, to.y)>>
                     ELSE <<>>
         IN  simplifyOrthogonalPath(<<from>> \o head \o path \o tail \o <<to>>)

-----------------------------------------------------------------------------
(* hybrid orchestrator: conditions of hybridRoute *)

\* the comparison turned round: pathEfficiency < 0.5
efficiencyBelowHalf(from, to, cost) ==
    LET dx == to.x - from.x
        dy == to.y - from.y
        d2 == dx * dx + dy * dy
    IN  cost > 0 /\ 4 * d2 < cost * cost

\* pathEfficiency > 0.5, with pathEfficiency = directDistance / cost and
\* directDistance = sqrt(d2): compared on the squares, so that no root is
\* rounded.  cost = 0 gives Infinity (accepted) or, for d2 = 0, NaN (not).
efficiencyAboveHalf(from, to, cost) ==
    LET dx == to.x - from.x
        dy == to.y - from.y
        d2 == dx * dx + dy * dy
    IN  IF cost > 0 THEN 4 * d2 > cost * cost
        ELSE IF cost = 0 THEN d2 > 0
        ELSE FALSE

\* accepted only when the cost is at most 500 as well
acceptsOrthogonalUnderCost(r, from, to) ==
    /\ r.success
    /\ r.cost # NoCost
    /\ efficiencyAboveHalf(from, to, r.cost[1])
    /\ Len(r.points) <= 6
    /\ r.cost[1] <= Canvas(500)

\* if (orthoResult.success && orthoResult.cost !== undefined) {
\*   if (pathEfficiency > 0.5 && orthoResult.points.length <= 6) return orthoResult }
acceptsOrthogonal(r, from, to) ==
    /\ r.success
    /\ r.cost # NoCost
    /\ efficiencyAboveHalf(from, to, r.cost[1])
    /\ Len(r.points) <= 6

\* the cost > 500 clause left out
needsGridSearchOnFailure(r) == ~r.success

\* if (!orthoResult.success || (orthoResult.cost !== undefined && orthoResult.cost > 500))
needsGridSearch(r) ==
    \/ ~r.success
    \/ (r.cost # NoCost /\ r.cost[1] > Canvas(500))

-----------------------------------------------------------------------------
(* obstacle projection: diagram elements are [id, type, props] records for   *)
(* shapes, props in canvas units, and [id, type] records for linkers        *)

\* isShape(element): a type guard on the element's type tag
isShape(element) == element.type = "shape"

\* the padding createObstaclesFromElements gives every obstacle
ElementPadding == 10

\* for (const element of elements), with the exclusion test left out
createObstaclesLoopAll(elements, excludeSet, i, acc) ==
    LET all[k \in i..(Len(elements) + 1)] ==
            IF k > Len(elements) THEN <<>>
            ELSE IF isShape(elements[k])
                 THEN <<createObstacleFromRect(elements[k].id, elements[k].props.x,
                                               elements[k].props.y, elements[k].props.w,
                                               elements[k].props.h, ElementPadding)>>
                      \o all[k + 1]
                 ELSE all[k + 1]
    IN  acc \o all[i]

\* for (const element of elements) { if (excludeSet.has(element.id)) continue
\*   if (isShape(element)) obstacles.push(createObstacleFromRect(element.id, rect, 10)) }
RECURSIVE createObstaclesLoop(_, _, _, _)
createObstaclesLoop(elements, excludeSet, i, acc) ==
    IF i > Len(elements) THEN acc
    ELSE IF elements[i].id \in excludeSet
         THEN createObstaclesLoop(elements, excludeSet, i + 1, acc)
    ELSE IF isShape(elements[i])
         THEN createObstaclesLoop(elements, excludeSet, i + 1,
                  Append(acc, createObstacleFromRect(elements[i].id, elements[i].props.x,
                                                     elements[i].props.y, elements[i].props.w,
                                                     elements[i].props.h, ElementPadding)))
    ELSE createObstaclesLoop(elements, excludeSet, i + 1, acc)

createObstaclesFromElements(elements, excludeIds) ==
    createObstaclesLoop(elements, {excludeIds[k] : k \in 1..Len(excludeIds)}, 1, <<>>)

-----------------------------------------------------------------------------
(* one call of route(from, to, obstacles, config, options) *)

VARIABLES from, to, obstacles, config, options,
          pc,            \* the statement the call is at
          orthoResult,   \* what orthogonalRoute returned
          tier,          \* the tier orthogonalRoute returned from; 0: none yet, 5: its fallback
          astarRan,      \* aStarRoute has been entered
          astarResult,   \* what aStarRoute returned
          result,        \* what route returned
          openHeap, allNodes, closedSet, obstacleGrid, iterations,
          pops,          \* number of openHeap.pop() calls made
          lastPop        \* key of the node the last pop returned, <<>> before the first

\* a min-heap of its own, driven by push, pop and peek
VARIABLES queue,         \* the heap array
          pushes,        \* number of push calls made
          popped,        \* number of pop calls that returned an item
          returned,      \* what the last pop or peek returned: <<>> for undefined, <<item>>
          lastOp         \* the last heap method called: "none", "push", "pop", "peek"

\* a point sequence handed to the path utilities
VARIABLES givenPath,
          stage,         \* "given", "simplified", "simplifiedTwice", "costed"; "idle": unused
          once,          \* simplifyOrthogonalPath(givenPath)
          twice,         \* simplifyOrthogonalPath(once)
          routeCost      \* <<b, calculateRouteCost(givenPath, b)>>, <<>> before the call

\* a route and an obstacle list handed to isRouteValid
VARIABLES givenRoute, givenObstacles,
          validity       \* <<isRouteValid(givenRoute, givenObstacles)>>, <<>> before the call

\* an element list and an exclusion list handed to createObstaclesFromElements
VARIABLES elements, excludeIds,
          created        \* <<createObstaclesFromElements(elements, excludeIds)>>, <<>> before

heapVars == <<queue, pushes, popped, returned, lastOp>>

validVars == <<givenRoute, givenObstacles, validity>>

elementVars == <<elements, excludeIds, created>>

utilVars == <<givenPath, stage, once, twice, routeCost, validVars, elementVars>>

routeVars == <<from, to, obstacles, config, options, pc, orthoResult, tier, astarRan,
               astarResult, result, openHeap, allNodes, closedSet, obstacleGrid,
               iterations, pops, lastPop>>

vars == <<from, to, obstacles, config, options, pc, orthoResult, tier, astarRan,
          astarResult, result, openHeap, allNodes, closedSet, obstacleGrid,
          iterations, pops, lastPop, heapVars, utilVars>>

inputs == <<from, to, obstacles, config, options>>

orthoVars == <<orthoResult, tier>>

astarVars == <<astarRan, astarResult, openHeap, allNodes, closedSet, obstacleGrid,
               iterations, pops, lastPop>>

\* DEFAULT_ROUTER_CONFIG
DefaultGridSize == 10

DefaultPadding == 15

DefaultMaxIterations == 5000

DefaultOrthogonalCost == 1

\* const { heuristic = 'manhattan', bendPenalty = 20, weight = 1 } = options
DefaultBendPenalty == 20

DefaultWeight == 1

RouterConfig(gridSize, padding, maxIterations, orthogonalCost) ==
    [gridSize |-> Canvas(gridSize), padding |-> Canvas(padding),
     maxIterations |-> maxIterations, orthogonalCost |-> orthogonalCost]

DEFAULT_ROUTER_CONFIG ==
    RouterConfig(DefaultGridSize, DefaultPadding, DefaultMaxIterations,
                 DefaultOrthogonalCost)

RouterOptions(algorithm, startDirection) ==
    [algorithm |-> algorithm,
     astarOptions |-> [heuristic |-> "manhattan",
                       bendPenalty |-> Canvas(DefaultBendPenalty),
                       weight |-> DefaultWeight],
     orthogonalOptions |-> [startDirection |-> startDirection, bendCost |-> <<>>]]

\* const bounds = calculateBounds(from, to, obstacles, padding)   (expand = 100)
astarBounds == calculateBounds(from, to, obstacles, config.padding, Canvas(100))

startX == snapToGrid(from.x, config.gridSize)

startY == snapToGrid(from.y, config.gridSize)

endX == snapToGrid(to.x, config.gridSize)

endY == snapToGrid(to.y, config.gridSize)

astarEnv ==
    [bounds |-> astarBounds, obstacleGrid |-> obstacleGrid,
     gridSize |-> config.gridSize, orthogonalCost |-> config.orthogonalCost,
     bendPenalty |-> options.astarOptions.bendPenalty,
     heuristic |-> options.astarOptions.heuristic,
     weight |-> options.astarOptions.weight,
     endX |-> endX, endY |-> endY]

-----------------------------------------------------------------------------
(* actions *)

\* route: the switch on options.algorithm
Route ==
    /\ pc = "route"
    /\ pc' = IF options.algorithm = "astar" THEN "aStarRoute" ELSE "tryDirectRoute"
    /\ UNCHANGED <<heapVars, utilVars, inputs, orthoVars, astarVars, result>>

\* orthogonalRoute, tier 1
TryDirectRoute ==
    /\ pc = "tryDirectRoute"
    /\ LET directRoute == tryDirectRoute(from, to, obstacles)
       IN  IF directRoute.success
           THEN orthoResult' = directRoute /\ tier' = 1 /\ pc' = "orthogonalReturned"
           ELSE pc' = "trySimpleOrthogonal" /\ UNCHANGED orthoVars
    /\ UNCHANGED <<heapVars, utilVars, inputs, astarVars, result>>

\* orthogonalRoute, tier 2
TrySimpleOrthogonal ==
    /\ pc = "trySimpleOrthogonal"
    /\ LET simpleRoute == trySimpleOrthogonal(from, to, obstacles, options.orthogonalOptions)
       IN  IF simpleRoute.success
           THEN orthoResult' = simpleRoute /\ tier' = 2 /\ pc' = "orthogonalReturned"
           ELSE pc' = "tryIntermediateRoute" /\ UNCHANGED orthoVars
    /\ UNCHANGED <<heapVars, utilVars, inputs, astarVars, result>>

\* orthogonalRoute, tier 3
TryIntermediateRoute ==
    /\ pc = "tryIntermediateRoute"
    /\ LET intermediateRoute ==
               tryIntermediateRoute(from, to, obstacles, options.orthogonalOptions)
       IN  IF intermediateRoute.success
           THEN orthoResult' = intermediateRoute /\ tier' = 3 /\ pc' = "orthogonalReturned"
           ELSE pc' = "tryComplexOrthogonal" /\ UNCHANGED orthoVars
    /\ UNCHANGED <<heapVars, utilVars, inputs, astarVars, result>>

\* orthogonalRoute, tier 4 and the final fallback
TryComplexOrthogonal ==
    /\ pc = "tryComplexOrthogonal"
    /\ LET complexRoute ==
               tryComplexOrthogonal(from, to, obstacles, config, options.orthogonalOptions)
       IN  IF complexRoute.success
           THEN orthoResult' = complexRoute /\ tier' = 4
           ELSE orthoResult' = Fallback(from, to) /\ tier' = 5
    /\ pc' = "orthogonalReturned"
    /\ UNCHANGED <<heapVars, utilVars, inputs, astarVars, result>>

\* route, case 'orthogonal': return orthogonalRoute(...)
RouteReturnOrthogonal ==
    /\ pc = "orthogonalReturned"
    /\ options.algorithm = "orthogonal"
    /\ result' = orthoResult
    /\ pc' = "done"
    /\ UNCHANGED <<heapVars, utilVars, inputs, orthoVars, astarVars>>

\* hybridRoute: the early return of an efficient orthogonal route
HybridAccept ==
    /\ pc = "orthogonalReturned"
    /\ options.algorithm = "hybrid"
    /\ acceptsOrthogonal(orthoResult, from, to)
    /\ result' = orthoResult
    /\ pc' = "done"
    /\ UNCHANGED <<heapVars, utilVars, inputs, orthoVars, astarVars>>

\* hybridRoute: the call of aStarRoute
HybridGridSearch ==
    /\ pc = "orthogonalReturned"
    /\ options.algorithm = "hybrid"
    /\ ~acceptsOrthogonal(orthoResult, from, to)
    /\ needsGridSearch(orthoResult)
    /\ pc' = "aStarRoute"
    /\ UNCHANGED <<heapVars, utilVars, inputs, orthoVars, astarVars, result>>

\* hybridRoute: the final return orthoResult, reached without grid search
HybridKeepOrthogonal ==
    /\ pc = "orthogonalReturned"
    /\ options.algorithm = "hybrid"
    /\ ~acceptsOrthogonal(orthoResult, from, to)
    /\ ~needsGridSearch(orthoResult)
    /\ result' = orthoResult
    /\ pc' = "done"
    /\ UNCHANGED <<heapVars, utilVars, inputs, orthoVars, astarVars>>

\* aStarRoute up to the main loop
AStarStart ==
    /\ pc = "aStarRoute"
    /\ LET h == heuristicFunc(startX, startY, endX, endY, options.astarOptions.heuristic)
           startNode == AStarNode(startX, startY, 0, h,
                                  0 + h * options.astarOptions.weight, <<>>, "null")
           startKey == toKey(startX, startY)
           nodes == [k \in {startKey} |-> startNode]
       IN  /\ obstacleGrid' = buildObstacleGrid(obstacles, astarBounds, config.gridSize)
           /\ allNodes' = nodes
           /\ openHeap' = heapPush(<<>>, startKey, scoreOf(nodes))
    /\ closedSet' = {}
    /\ iterations' = 0
    /\ astarRan' = TRUE
    /\ pc' = "aStarLoop"
    /\ UNCHANGED <<heapVars, utilVars, inputs, orthoVars, astarResult, result, pops, lastPop>>

\* iterations <= maxIterations: one pass too many
loopGuardInclusive(length, iters, maxIterations) == length > 0 /\ iters <= maxIterations

\* while (openHeap.length > 0 && iterations < maxIterations)
loopGuard(length, iters, maxIterations) == length > 0 /\ iters < maxIterations

loopCondition == loopGuard(Len(openHeap), iterations, config.maxIterations)

\* a loop pass that pops the goal cell: post-processing and return
AStarGoal ==
    /\ pc = "aStarLoop"
    /\ loopCondition
    /\ LET currentKey == heapPeek(openHeap)
           current == allNodes[currentKey]
       IN  /\ current.x = endX /\ current.y = endY
           /\ lastPop' = <<currentKey>>
           /\ LET path == reconstructPath(allNodes, currentKey)
                  smoothedPath == smoothPath(path, obstacleGrid, config.gridSize, astarBounds)
              IN  astarResult' = RouteResult(connectEndpoints(smoothedPath, from, to),
                                             TRUE, <<current.g>>)
    /\ openHeap' = heapPop(openHeap, scoreOf(allNodes))
    /\ iterations' = iterations + 1
    /\ pops' = pops + 1
    /\ pc' = "aStarReturned"
    /\ UNCHANGED <<heapVars, utilVars, inputs, orthoVars, astarRan, allNodes, closedSet, obstacleGrid, result>>

\* a loop pass that pops another cell: close it and relax its four neighbours
AStarExpand ==
    /\ pc = "aStarLoop"
    /\ loopCondition
    /\ LET currentKey == heapPeek(openHeap)
           current == allNodes[currentKey]
           closed == closedSet \cup {currentKey}
           st == expandAll([heap |-> heapPop(openHeap, scoreOf(allNodes)),
                            nodes |-> allNodes], currentKey, 1, closed, astarEnv)
       IN  /\ ~(current.x = endX /\ current.y = endY)
           /\ lastPop' = <<currentKey>>
           /\ closedSet' = closed
           /\ openHeap' = st.heap
           /\ allNodes' = st.nodes
    /\ iterations' = iterations + 1
    /\ pops' = pops + 1
    /\ UNCHANGED <<heapVars, utilVars, inputs, orthoVars, astarRan, astarResult, obstacleGrid, result, pc>>

\* the loop ends without the goal: return { points: [from, to], success: false }
AStarGiveUp ==
    /\ pc = "aStarLoop"
    /\ ~loopCondition
    /\ astarResult' = Fallback(from, to)
    /\ pc' = "aStarReturned"
    /\ UNCHANGED <<heapVars, utilVars, inputs, orthoVars, astarRan, openHeap, allNodes, closedSet,
                   obstacleGrid, iterations, pops, lastPop, result>>

\* route, case 'astar': return aStarRoute(...)
RouteReturnAStar ==
    /\ pc = "aStarReturned"
    /\ options.algorithm = "astar"
    /\ result' = astarResult
    /\ pc' = "done"
    /\ UNCHANGED <<heapVars, utilVars, inputs, orthoVars, astarVars>>

\* the grid search result returned whether it succeeded or not
afterGridSearchAlways(astar, ortho) == astar

\* if (astarResult.success) return astarResult ... return orthoResult
afterGridSearch(astar, ortho) == IF astar.success THEN astar ELSE ortho

\* hybridRoute after aStarRoute: its result if it succeeded, else orthoResult
HybridAfterGridSearch ==
    /\ pc = "aStarReturned"
    /\ options.algorithm = "hybrid"
    /\ result' = afterGridSearch(astarResult, orthoResult)
    /\ pc' = "done"
    /\ UNCHANGED <<heapVars, utilVars, inputs, orthoVars, astarVars>>

-----------------------------------------------------------------------------
(* the calls explored *)

\* obstacle layouts are tried at 0..MaxShift horizontal offsets of ShiftStep
\* canvas units, so that their edges fall on and off the grid lines
MaxShift == 1

\* iteration budgets 0..MaxBudget are tried besides the default one
MaxBudget == 2

ShiftStep(k) == 7 * k

Box(id, x, y, w, h, k) == createObstacleFromRect(id, x + ShiftStep(k), y, w, h, 10)

EndpointPairs ==
    { <<P(0, 0), P(100, 0)>>,      \* horizontal
      <<P(50, 50), P(50, 50)>>,    \* from = to
      <<P(0, 0), P(100, 100)>>,    \* diagonal
      <<P(0, 0), P(200, 20)>>,     \* shallow diagonal
      <<P(0, 50), P(200, 50)>>,    \* horizontal, long
      <<P(3, 4), P(96, 27)>> }     \* off the grid

Layouts(k) ==
    { <<>>,
      <<Box("a", 40, 40, 20, 20, k)>>,
      <<Box("a", 80, 40, 40, 30, k)>>,
      <<Box("a", 120, -50, 20, 55, k), Box("b", 40, 15, 20, 35, k)>>,
      <<Box("a", -20, -20, 40, 40, k)>>,
      <<Box("a", 40, -20, 20, 40, k)>> }

Scenes ==
    { [from |-> e[1], to |-> e[2], obstacles |-> l] :
        e \in EndpointPairs, l \in UNION {Layouts(k) : k \in 0..MaxShift} }

\* a long connector whose L route is efficient and costs more than 500
LongScenes ==
    { [from |-> P(0, 0), to |-> P(400, 300), obstacles |-> <<Box("a", 40, 40, 20, 20, k)>>] :
        k \in 0..MaxShift }

\* a tall wall between two near points: the way round costs more than 500
WallScenes ==
    { [from |-> P(0, 0), to |-> P(60, 0), obstacles |-> <<Box("a", 20, -200, 1, 400, k)>>] :
        k \in 0..MaxShift }

\* two near points with a box between them: the way round is short but more
\* than twice the straight distance
NearScenes ==
    { [from |-> P(0, 0), to |-> P(60, 0), obstacles |-> <<Box("a", 25, -30, 10, 60, k)>>] :
        k \in 0..MaxShift }

\* the detour scenario of the grid search router: one obstacle of padding 5
\* ahead of from, with to inside it (100) or beyond it (200)
DetourScenes ==
    { [from |-> P(0, 0), to |-> P(tx, 0),
       obstacles |-> <<createObstacleFromRect("a", 80, -30, 40, 60, 5)>>] :
        tx \in {100, 200} }

\* the cluttered scene: three staggered obstacles between the endpoints
ClutteredScenes ==
    { [from |-> P(50, 50), to |-> P(350, 350),
       obstacles |-> <<Box("a", 100, 100, 80, 80, 0), Box("b", 200, 150, 60, 100, 0),
                       Box("c", 150, 250, 100, 60, 0)>>] }

\* endpoints more than 500 apart with nothing on the straight segment
FarScenes ==
    { [from |-> P(0, 0), to |-> P(600, 450), obstacles |-> <<Box("a", 40, 140, 20, 20, k)>>] :
        k \in 0..MaxShift }

\* endpoints one above the other
VerticalScenes ==
    { [from |-> P(0, 0), to |-> P(0, 100), obstacles |-> l] :
        l \in UNION {Layouts(k) : k \in 0..MaxShift} }

Budgets ==
    {RouterConfig(DefaultGridSize, DefaultPadding, n, DefaultOrthogonalCost) :
        n \in 0..MaxBudget}

Call(s, c, algorithm) ==
    [from |-> s.from, to |-> s.to, obstacles |-> s.obstacles, config |-> c,
     options |-> RouterOptions(algorithm, "none")]

\* a call whose orthogonalOptions carry a startDirection
CallFrom(s, c, algorithm, startDirection) ==
    [from |-> s.from, to |-> s.to, obstacles |-> s.obstacles, config |-> c,
     options |-> RouterOptions(algorithm, startDirection)]

\* orthogonalRoute reads config.padding only: one config for it
Calls ==
    {Call(s, c, a) : s \in Scenes, c \in {DEFAULT_ROUTER_CONFIG} \cup Budgets,
                     a \in {"hybrid", "astar"}}
    \cup {Call(s, DEFAULT_ROUTER_CONFIG, "orthogonal") :
            s \in Scenes \cup LongScenes \cup WallScenes \cup NearScenes}
    \cup {Call(s, DEFAULT_ROUTER_CONFIG, "hybrid") : s \in LongScenes \cup NearScenes}
    \cup {Call(s, DEFAULT_ROUTER_CONFIG, "astar") : s \in NearScenes}
    \cup {Call(s, c, "hybrid") : s \in WallScenes, c \in {DEFAULT_ROUTER_CONFIG} \cup Budgets}
    \cup {Call(s, DEFAULT_ROUTER_CONFIG, "astar") : s \in DetourScenes}
    \cup {Call(s, DEFAULT_ROUTER_CONFIG, "hybrid") : s \in ClutteredScenes \cup FarScenes}
    \cup {CallFrom(s, DEFAULT_ROUTER_CONFIG, "orthogonal", d) :
            s \in Scenes \cup VerticalScenes \cup NearScenes, d \in {"h", "v"}}

\* no heap of its own is driven
HeapIdle ==
    /\ queue = <<>>
    /\ pushes = 0
    /\ popped = 0
    /\ returned = <<>>
    /\ lastOp = "none"

\* no route is handed to isRouteValid
ValidIdle ==
    /\ givenRoute = <<>>
    /\ givenObstacles = <<>>
    /\ validity = <<>>

\* no element list is handed to createObstaclesFromElements
ElementIdle ==
    /\ elements = <<>>
    /\ excludeIds = <<>>
    /\ created = <<>>

\* no path is handed to simplifyOrthogonalPath and calculateRouteCost
PathIdle ==
    /\ givenPath = <<>>
    /\ stage = "idle"
    /\ once = <<>>
    /\ twice = <<>>
    /\ routeCost = <<>>

\* no utility is called
UtilIdle ==
    /\ PathIdle
    /\ ValidIdle
    /\ ElementIdle

Init ==
    /\ HeapIdle
    /\ UtilIdle
    /\ \E c \in Calls :
        /\ from = c.from
        /\ to = c.to
        /\ obstacles = c.obstacles
        /\ config = c.config
        /\ options = c.options
    /\ pc = "route"
    /\ orthoResult = NoRoute
    /\ tier = 0
    /\ astarRan = FALSE
    /\ astarResult = NoRoute
    /\ result = NoRoute
    /\ openHeap = <<>>
    /\ allNodes = [k \in {} |-> 0]
    /\ closedSet = {}
    /\ obstacleGrid = {}
    /\ iterations = 0
    /\ pops = 0
    /\ lastPop = <<>>

Next ==
    \/ Route
    \/ TryDirectRoute
    \/ TrySimpleOrthogonal
    \/ TryIntermediateRoute
    \/ TryComplexOrthogonal
    \/ RouteReturnOrthogonal
    \/ HybridAccept
    \/ HybridGridSearch
    \/ HybridKeepOrthogonal
    \/ AStarStart
    \/ AStarGoal
    \/ AStarExpand
    \/ AStarGiveUp
    \/ RouteReturnAStar
    \/ HybridAfterGridSearch

Spec == Init /\ [][Next]_vars

-----------------------------------------------------------------------------
(* the min-heap on its own: any sequence of push, pop and peek *)

\* items 1..MaxItems may be queued, at most MaxPushes pushes are made
MaxItems == 4

MaxPushes == 4

Items == 1..MaxItems

\* scoreFn: fixed while the items are queued; items 2k and 2k + 1 tie
itemScore == [i \in Items |-> i \div 2]

\* no call of route is under way
RouteIdle ==
    /\ from = P(0, 0)
    /\ to = P(0, 0)
    /\ obstacles = <<>>
    /\ config = DEFAULT_ROUTER_CONFIG
    /\ options = RouterOptions("hybrid", "none")
    /\ pc = "idle"
    /\ orthoResult = NoRoute
    /\ tier = 0
    /\ astarRan = FALSE
    /\ astarResult = NoRoute
    /\ result = NoRoute
    /\ openHeap = <<>>
    /\ allNodes = <<>>
    /\ closedSet = {}
    /\ obstacleGrid = {}
    /\ iterations = 0
    /\ pops = 0
    /\ lastPop = <<>>

\* createMinHeap(scoreFn)
HeapInit ==
    /\ RouteIdle
    /\ UtilIdle
    /\ HeapIdle

\* push(item)
HeapPush(item) ==
    /\ pushes < MaxPushes
    /\ queue' = heapPush(queue, item, itemScore)
    /\ pushes' = pushes + 1
    /\ lastOp' = "push"
    /\ UNCHANGED <<popped, returned, routeVars, utilVars>>

\* pop(): undefined on an empty heap, the root otherwise
HeapPop ==
    /\ returned' = IF Len(queue) = 0 THEN <<>> ELSE <<heapPeek(queue)>>
    /\ queue' = heapPop(queue, itemScore)
    /\ popped' = IF Len(queue) = 0 THEN popped ELSE popped + 1
    /\ lastOp' = "pop"
    /\ UNCHANGED <<pushes, routeVars, utilVars>>

\* peek(): heap[0], undefined on an empty heap
HeapPeek ==
    /\ returned' = IF Len(queue) = 0 THEN <<>> ELSE <<heapPeek(queue)>>
    /\ lastOp' = "peek"
    /\ UNCHANGED <<queue, pushes, popped, routeVars, utilVars>>

HeapNext ==
    \/ \E item \in Items : HeapPush(item)
    \/ HeapPop
    \/ HeapPeek

HeapSpec == HeapInit /\ [][HeapNext]_vars

-----------------------------------------------------------------------------
(* the path utilities on their own: simplifyOrthogonalPath twice, then      *)
(* calculateRouteCost, on a given point sequence                            *)

\* the points have coordinates 0, 10, ..., 10 * MaxCoord; the sequences have
\* at most MaxLen points
MaxCoord == 1

MaxLen == 4

GridPoints == {P(10 * i, 10 * j) : i, j \in 0..MaxCoord}

\* the paths of the utilities' tests, and a straight three-point path
TestPaths ==
    { <<P(0, 0), P(10, 0), P(20, 0), P(20, 10), P(20, 20)>>,
      <<P(0, 0), P(10, 10)>>,
      <<P(0, 0), P(100, 0), P(100, 50)>>,
      <<P(0, 0), P(50, 0), P(100, 0)>> }

Paths == TestPaths \cup UNION {[1..n -> GridPoints] : n \in 0..MaxLen}

\* the bend costs tried
Penalties == {Canvas(0), Canvas(10), Canvas(25)}

UtilInit ==
    /\ RouteIdle
    /\ HeapIdle
    /\ ValidIdle
    /\ ElementIdle
    /\ givenPath \in Paths
    /\ stage = "given"
    /\ once = <<>>
    /\ twice = <<>>
    /\ routeCost = <<>>

\* simplifyOrthogonalPath(path)
Simplify ==
    /\ stage = "given"
    /\ once' = simplifyOrthogonalPath(givenPath)
    /\ stage' = "simplified"
    /\ UNCHANGED <<givenPath, twice, routeCost, routeVars, heapVars, validVars, elementVars>>

\* simplifyOrthogonalPath of the result
SimplifyAgain ==
    /\ stage = "simplified"
    /\ twice' = simplifyOrthogonalPath(once)
    /\ stage' = "simplifiedTwice"
    /\ UNCHANGED <<givenPath, once, routeCost, routeVars, heapVars, validVars, elementVars>>

\* calculateRouteCost(path, b)
CalculateRouteCost ==
    /\ stage = "simplifiedTwice"
    /\ \E b \in Penalties : routeCost' = <<b, calculateRouteCost(givenPath, b)>>
    /\ stage' = "costed"
    /\ UNCHANGED <<givenPath, once, twice, routeVars, heapVars, validVars, elementVars>>

UtilNext ==
    \/ Simplify
    \/ SimplifyAgain
    \/ CalculateRouteCost

UtilSpec == UtilInit /\ [][UtilNext]_vars

-----------------------------------------------------------------------------
(* isRouteValid on its own, on a given route and obstacle list *)

\* the route points have coordinates 0, 10, ..., 10 * MaxRouteCoord; the routes
\* have at most MaxRouteLen points
MaxRouteCoord == 3

MaxRouteLen == 2

RoutePoints == {P(10 * i, 10 * j) : i, j \in 0..MaxRouteCoord}

\* the routes of isRouteValid's tests, and two routes of two segments
TestRoutes ==
    { <<P(0, 0), P(100, 0)>>,
      <<P(0, 60), P(100, 60)>>,
      <<P(0, 0), P(30, 0), P(30, 30)>>,
      <<P(0, 0), P(0, 30), P(30, 0)>> }

Routes == TestRoutes \cup UNION {[1..n -> RoutePoints] : n \in 0..MaxRouteLen}

\* the obstacle lists tried: none, a square with and without padding, a
\* rectangle of no width, two obstacles, and the obstacles of the tests
ObstacleLists ==
    { <<>>,
      <<createObstacleFromRect("a", 10, 10, 10, 10, 0)>>,
      <<createObstacleFromRect("b", 10, 10, 10, 10, 5)>>,
      <<createObstacleFromRect("c", 15, 0, 0, 30, 0)>>,
      <<createObstacleFromRect("a", 10, 10, 10, 10, 0),
        createObstacleFromRect("d", 30, 20, 10, 10, 5)>>,
      <<createObstacleFromRect("obs", 50, 50, 20, 20, 10)>>,
      <<createObstacleFromRect("obs", 40, 50, 30, 20, 10)>> }

ValidInit ==
    /\ RouteIdle
    /\ HeapIdle
    /\ PathIdle
    /\ ElementIdle
    /\ givenRoute \in Routes
    /\ givenObstacles \in ObstacleLists
    /\ validity = <<>>

\* isRouteValid(route, obstacles)
IsRouteValid ==
    /\ validity = <<>>
    /\ validity' = <<isRouteValid(givenRoute, givenObstacles)>>
    /\ UNCHANGED <<givenRoute, givenObstacles, routeVars, heapVars, givenPath, stage,
                   once, twice, routeCost, elementVars>>

ValidNext == IsRouteValid

ValidSpec == ValidInit /\ [][ValidNext]_vars

-----------------------------------------------------------------------------
(* createObstaclesFromElements on its own *)

\* the element lists have at most MaxElements elements
MaxElements == 4

\* three shapes, the first two as in the tests, and a linker
ElementPool ==
    { [id |-> "shape1", type |-> "shape", props |-> [x |-> 10, y |-> 20, w |-> 100, h |-> 50]],
      [id |-> "shape2", type |-> "shape", props |-> [x |-> 200, y |-> 100, w |-> 80, h |-> 60]],
      [id |-> "shape3", type |-> "shape", props |-> [x |-> -5, y |-> 0, w |-> 0, h |-> 7]],
      [id |-> "linker1", type |-> "linker"] }

ElementLists == UNION {[1..n -> ElementPool] : n \in 0..MaxElements}

ExcludeLists ==
    { <<>>, <<"shape1">>, <<"shape2", "shape1">>, <<"linker1">>, <<"shape3", "shape3">>,
      <<"other">> }

ElementInit ==
    /\ RouteIdle
    /\ HeapIdle
    /\ PathIdle
    /\ ValidIdle
    /\ elements \in ElementLists
    /\ excludeIds \in ExcludeLists
    /\ created = <<>>

\* createObstaclesFromElements(elements, excludeIds)
CreateObstaclesFromElements ==
    /\ created = <<>>
    /\ created' = <<createObstaclesFromElements(elements, excludeIds)>>
    /\ UNCHANGED <<elements, excludeIds, routeVars, heapVars, givenPath, stage,
                   once, twice, routeCost, validVars>>

ElementNext == CreateObstaclesFromElements

ElementSpec == ElementInit /\ [][ElementNext]_vars

-----------------------------------------------------------------------------
(* properties *)

orthogonalHasReturned == tier # 0

astarHasReturned == astarRan /\ pc \in {"aStarReturned", "done"}

routeHasReturned == pc = "done"

\* points[0] = from, points[last] = to, at least two points
EndpointsExact(r) ==
    /\ Len(r.points) >= 2
    /\ r.points[1] = from
    /\ r.points[Len(r.points)] = to

\* C1: a successful result of route, aStarRoute or orthogonalRoute starts at
\* from exactly, ends at to exactly (not at the snapped cells) and has at
\* least two points.
C1_EndpointFidelity ==
    /\ (orthogonalHasReturned /\ orthoResult.success) => EndpointsExact(orthoResult)
    /\ (astarHasReturned /\ astarResult.success) => EndpointsExact(astarResult)
    /\ (routeHasReturned /\ result.success) => EndpointsExact(result)

\* the grid search succeeded from an endpoint that is not a grid point
C1_Witness ==
    /\ routeHasReturned
    /\ astarHasReturned
    /\ result.success
    /\ result = astarResult
    /\ (startX # from.x \/ startY # from.y)
    /\ (endX # to.x \/ endY # to.y)

\* C2: a successful result of the top-level route has no segment that
\* intersects a padded obstacle rectangle.
C2_RouteAvoidsObstacles ==
    (routeHasReturned /\ result.success) => isRouteValid(result.points, obstacles)

\* C3: a successful result of orthogonalRoute, whose points are the simplified
\* candidate, has no segment that intersects a padded obstacle rectangle.
C3_OrthogonalAvoidsObstacles ==
    (orthogonalHasReturned /\ orthoResult.success)
        => isRouteValid(orthoResult.points, obstacles)

\* the escape tier succeeded with points that are none of its candidates: the
\* route returned is a simplified one, not the one validated
C3_Witness ==
    /\ tier = 4
    /\ orthoResult.success
    /\ LET candidates == complexCandidates(from, to, obstacles, config)
       IN  \A i \in 1..Len(candidates) : candidates[i] # orthoResult.points

\* C4: a successful result of aStarRoute has no segment that intersects a
\* padded obstacle rectangle.
C4_AStarAvoidsObstacles ==
    (astarHasReturned /\ astarResult.success)
        => isRouteValid(astarResult.points, obstacles)

\* C5: a failed result of route, aStarRoute or orthogonalRoute holds exactly
\* the two points from, to.
C5_FailureIsStraightFallback ==
    /\ (orthogonalHasReturned /\ ~orthoResult.success) => orthoResult.points = <<from, to>>
    /\ (astarHasReturned /\ ~astarResult.success) => astarResult.points = <<from, to>>
    /\ (routeHasReturned /\ ~result.success) => result.points = <<from, to>>

\* hybrid mode failed: no orthogonal tier had a valid candidate and the grid
\* search emptied its queue below the budget
C5_Witness ==
    /\ routeHasReturned
    /\ options.algorithm = "hybrid"
    /\ tier = 5
    /\ astarHasReturned
    /\ ~result.success
    /\ Len(openHeap) = 0
    /\ iterations < config.maxIterations

\* C6: aStarRoute pops at most maxIterations nodes; its counter equals the
\* number of pops made.
C6_PopsWithinBudget ==
    /\ pops <= config.maxIterations
    /\ iterations = pops

\* the budget ran out with nodes still queued
C6_Witness ==
    /\ astarHasReturned
    /\ ~astarResult.success
    /\ config.maxIterations > 0
    /\ pops = config.maxIterations
    /\ Len(openHeap) > 0

\* euclideanDistance(from, to) / cost > 0.5, on squares (cost > 0)
EfficiencyOver(cost) ==
    LET dx == to.x - from.x
        dy == to.y - from.y
    IN  cost > 0 /\ 4 * (dx * dx + dy * dy) > cost * cost

OrthogonalIsGoodEnough ==
    /\ orthoResult.success
    /\ orthoResult.cost # NoCost
    /\ EfficiencyOver(orthoResult.cost[1])
    /\ Len(orthoResult.points) <= 6

\* C7: in hybrid mode, an orthogonal success with efficiency > 0.5 and at most
\* 6 points is returned as it is and the grid search is not run.
C7_EfficientOrthogonalAccepted ==
    (options.algorithm = "hybrid" /\ orthogonalHasReturned /\ OrthogonalIsGoodEnough)
        => /\ ~astarRan
           /\ routeHasReturned => result = orthoResult

\* an efficient orthogonal route that costs more than 500 was returned
C7_Witness ==
    /\ routeHasReturned
    /\ options.algorithm = "hybrid"
    /\ OrthogonalIsGoodEnough
    /\ orthoResult.cost[1] > Canvas(500)
    /\ result = orthoResult

\* the orthogonal result is one the claim lists as not accepted immediately
NotAcceptedImmediately ==
    \/ ~orthoResult.success
    \/ /\ orthoResult.cost # NoCost
       /\ ~OrthogonalIsGoodEnough

\* C8 as stated: in hybrid mode, whenever the orthogonal result is not accepted
\* immediately, the grid search is run and its result returned if it succeeds.
C8_GridSearchWheneverNotAccepted ==
    (options.algorithm = "hybrid" /\ routeHasReturned /\ NotAcceptedImmediately)
        => /\ astarRan
           /\ astarResult.success => result = astarResult

\* C8 amended: in hybrid mode the grid search is run exactly when the
\* orthogonal result is not accepted immediately and either the orthogonal
\* router failed or its cost exceeds 500; its result is returned if it succeeds.
C8_GridSearchOnFailureOrHighCost ==
    (options.algorithm = "hybrid" /\ routeHasReturned)
        => /\ astarRan <=>
                /\ ~OrthogonalIsGoodEnough
                /\ \/ ~orthoResult.success
                   \/ (orthoResult.cost # NoCost /\ orthoResult.cost[1] > Canvas(500))
           /\ (astarRan /\ astarResult.success) => result = astarResult

\* an inefficient orthogonal success costing more than 500 was replaced by the
\* grid search result
C8_Witness ==
    /\ routeHasReturned
    /\ options.algorithm = "hybrid"
    /\ orthoResult.success
    /\ orthoResult.cost # NoCost
    /\ ~OrthogonalIsGoodEnough
    /\ orthoResult.cost[1] > Canvas(500)
    /\ astarRan
    /\ astarResult.success
    /\ result = astarResult

\* C9: in hybrid mode the result is the grid search result when the grid
\* search was run and succeeded, and the orthogonal result unchanged otherwise.
C9_HybridReturnsGridOrOrthogonal ==
    (options.algorithm = "hybrid" /\ routeHasReturned)
        => IF astarRan /\ astarResult.success
           THEN result = astarResult
           ELSE result = orthoResult

\* the grid search failed after a successful inefficient orthogonal route,
\* and that route was returned
C9_Witness ==
    /\ routeHasReturned
    /\ options.algorithm = "hybrid"
    /\ astarRan
    /\ ~astarResult.success
    /\ orthoResult.success
    /\ ~OrthogonalIsGoodEnough
    /\ result = orthoResult
    /\ result.success

\* the candidates of tier k, and whether one of them is obstacle-valid
tierCandidates(k) ==
    CASE k = 1 -> << <<from, to>> >>
      [] k = 2 -> simpleCandidates(from, to, options.orthogonalOptions)
      [] k = 3 -> intermediateCandidates(from, to)
      [] OTHER -> complexCandidates(from, to, obstacles, config)

tierHasValid(k) ==
    LET candidates == tierCandidates(k)
    IN  \E i \in 1..Len(candidates) : isRouteValid(candidates[i], obstacles)

\* the statement orthogonalRoute is at, as a tier number
tierAt ==
    CASE pc = "tryDirectRoute" -> 1
      [] pc = "trySimpleOrthogonal" -> 2
      [] pc = "tryIntermediateRoute" -> 3
      [] pc = "tryComplexOrthogonal" -> 4
      [] OTHER -> 0

\* C10: orthogonalRoute tries direct, single-bend, midpoint, escape in this
\* order; it reaches and returns from tier k only if no earlier tier has an
\* obstacle-valid candidate, and what it returns then comes from a valid
\* candidate of tier k alone (stated where orthogonalRoute returns: its
\* result is not written afterwards).
C10_FirstValidTierWins ==
    /\ \A j \in 1..4 : (j < tierAt) => ~tierHasValid(j)
    /\ pc = "orthogonalReturned" =>
        /\ \A j \in 1..4 : (j < tier) => ~tierHasValid(j)
        /\ tier <= 4 =>
            /\ orthoResult.success
            /\ LET candidates == tierCandidates(tier)
               IN  \E i \in 1..Len(candidates) :
                      /\ isRouteValid(candidates[i], obstacles)
                      /\ orthoResult.points = simplifyOrthogonalPath(candidates[i])
        /\ tier = 5 => ~orthoResult.success

\* the midpoint tier returned although later candidates (escape tier) are valid
C10_Witness ==
    /\ tier = 3
    /\ orthoResult.success
    /\ tierHasValid(4)

\* cost of the simplified form of a candidate
candidateCost(candidate) ==
    calculateRouteCost(simplifyOrthogonalPath(candidate),
                       bendCostOf(options.orthogonalOptions))

\* C11: a route returned by tier 2, 3 or 4 carries the cost
\* calculateRouteCost(its points, bendCost), and no valid candidate of that
\* tier has a simplified form that costs less (stated where orthogonalRoute
\* returns: its result is not written afterwards).
C11_MinimumCostInTier ==
    (pc = "orthogonalReturned" /\ tier \in 2..4) =>
        LET candidates == tierCandidates(tier)
        IN  /\ orthoResult.cost =
                  <<calculateRouteCost(orthoResult.points,
                                       bendCostOf(options.orthogonalOptions))>>
            /\ \A i \in 1..Len(candidates) :
                  isRouteValid(candidates[i], obstacles)
                      => orthoResult.cost[1] <= candidateCost(candidates[i])

\* the tier's first valid candidate costs more than the route returned
C11_Witness ==
    /\ pc = "orthogonalReturned"
    /\ tier \in 2..4
    /\ LET candidates == tierCandidates(tier)
       IN  \E i \in 1..Len(candidates) :
              /\ isRouteValid(candidates[i], obstacles)
              /\ candidateCost(candidates[i]) > orthoResult.cost[1]
              /\ \A j \in 1..(i - 1) : ~isRouteValid(candidates[j], obstacles)

\* C12: with no obstacles, route in hybrid mode returns success with exactly
\* the points from, to, and this is the direct tier's result.
C12_NoObstaclesDirect ==
    (options.algorithm = "hybrid" /\ obstacles = <<>> /\ routeHasReturned) =>
        /\ result.success
        /\ result.points = <<from, to>>
        /\ tier = 1
        /\ result = orthoResult
        /\ ~astarRan

\* the degenerate call route(p, p, []) has returned
C12_Witness ==
    /\ routeHasReturned
    /\ options.algorithm = "hybrid"
    /\ obstacles = <<>>
    /\ from = to
    /\ result.success

\* C13 as stated: with from = to = p the orthogonal cascade succeeds at the
\* direct tier with the route p, p, whatever the obstacles.
C13_DegenerateSucceedsDirect ==
    (from = to /\ orthogonalHasReturned) =>
        /\ tier = 1
        /\ orthoResult.success
        /\ orthoResult.points = <<from, to>>

\* C13 restricted: with from = to = p the orthogonal cascade succeeds at the
\* direct tier with the route p, p when p lies in no padded obstacle rectangle
\* (edges included); when it does, no tier has a valid candidate and the
\* cascade returns the failed fallback p, p.
C13_DegenerateOutsideObstacles ==
    (from = to /\ orthogonalHasReturned) =>
        IF isPointInAnyObstacle(from, obstacles)
        THEN tier = 5 /\ orthoResult = Fallback(from, to)
        ELSE tier = 1 /\ orthoResult = RouteResult(<<from, to>>, TRUE, NoCost)

\* a degenerate call among obstacles that do not hold p was routed directly
C13_Witness ==
    /\ from = to
    /\ obstacles # <<>>
    /\ ~isPointInAnyObstacle(from, obstacles)
    /\ tier = 1
    /\ orthoResult.success

\* the detour scenario: aStarRoute, default config, the obstacle
\* (80,-30,40,60) of padding 5, from (0,0), to (tx,0)
DetourCall(tx) ==
    /\ options.algorithm = "astar"
    /\ config = DEFAULT_ROUTER_CONFIG
    /\ from = P(0, 0)
    /\ to = P(tx, 0)
    /\ obstacles = <<createObstacleFromRect("a", 80, -30, 40, 60, 5)>>

\* C14 as stated: the detour scenario with to = (100,0) succeeds with a path
\* longer than 100.
C14_DetourSucceeds ==
    (DetourCall(100) /\ astarHasReturned) =>
        /\ astarResult.success
        /\ calculatePathLength(astarResult.points) > Canvas(100)

\* C14 restated: with to = (200,0), beyond the obstacle, aStarRoute succeeds
\* with a path longer than 200; with to = (100,0), inside the obstacle, it
\* fails with the points from, to.
C14_DetourBeyondObstacle ==
    /\ (DetourCall(200) /\ astarHasReturned) =>
          /\ astarResult.success
          /\ calculatePathLength(astarResult.points) > Canvas(200)
    /\ (DetourCall(100) /\ astarHasReturned) => astarResult = Fallback(from, to)

\* the grid search reached (200,0) past the obstacle
C14_Witness ==
    /\ DetourCall(200)
    /\ astarHasReturned
    /\ astarResult.success
    /\ pops > 20

\* the cluttered scene, routed in hybrid mode with the default config
ClutteredCall ==
    /\ options.algorithm = "hybrid"
    /\ config = DEFAULT_ROUTER_CONFIG
    /\ from = P(50, 50)
    /\ to = P(350, 350)
    /\ obstacles = <<Box("a", 100, 100, 80, 80, 0), Box("b", 200, 150, 60, 100, 0),
                     Box("c", 150, 250, 100, 60, 0)>>

\* C15 as stated: the cluttered scene succeeds, through the grid search.
C15_ClutteredViaGridSearch ==
    (ClutteredCall /\ routeHasReturned) =>
        /\ result.success
        /\ astarRan
        /\ result = astarResult

\* C15 restated: the cluttered scene succeeds with the single-bend route
\* (50,50), (350,50), (350,350) of the orthogonal router, accepted at once;
\* the grid search is never run.
C15_ClutteredViaSingleBend ==
    ClutteredCall =>
        /\ ~astarRan
        /\ routeHasReturned =>
              /\ result.success
              /\ tier = 2
              /\ result = orthoResult
              /\ result.points = <<P(50, 50), P(350, 50), P(350, 350)>>

\* the cluttered scene has returned a successful route
C15_Witness ==
    /\ ClutteredCall
    /\ routeHasReturned
    /\ result.success
    /\ ~isRouteValid(<<from, to>>, obstacles)

\* the first segment of r moves horizontally
StartsHorizontally(r) == Len(r.points) >= 2 /\ r.points[2].x # r.points[1].x

\* C16: a successful orthogonalRoute with startDirection 'h' starts
\* with a segment of non-zero horizontal displacement.
C16_StartDirectionHonoured ==
    (orthogonalHasReturned /\ options.orthogonalOptions.startDirection = "h"
        /\ orthoResult.success) => StartsHorizontally(orthoResult)

\* how many times item x is held in the heap array h
Held(h, x) == Cardinality({i \in DOMAIN h : h[i] = x})

\* the step is a call of pop
IsPop == lastOp' = "pop"

\* C17: a pop of a non-empty heap removes exactly one item, the one it
\* returns, whose score is at most the score of every item still held; a peek
\* leaves the heap as it is and returns the item a pop then returns.
C17_PopReturnsMinimum ==
    [][ /\ (IsPop /\ queue # <<>>) =>
              /\ returned' # <<>>
              /\ Len(queue') = Len(queue) - 1
              /\ \A x \in Items :
                    Held(queue', x) = Held(queue, x) - (IF x = returned'[1] THEN 1 ELSE 0)
              /\ \A k \in DOMAIN queue' : itemScore[returned'[1]] <= itemScore[queue'[k]]
        /\ lastOp' = "peek" => queue' = queue
        /\ (lastOp = "peek" /\ IsPop) => returned' = returned
      ]_vars

\* a pop returned an item with items of a higher and of the same score still
\* held, after an earlier pop
C17_Witness ==
    /\ lastOp = "pop"
    /\ returned # <<>>
    /\ popped >= 2
    /\ \E k \in DOMAIN queue : itemScore[queue[k]] = itemScore[returned[1]]
    /\ \E k \in DOMAIN queue : itemScore[queue[k]] > itemScore[returned[1]]

\* C18: the heap's length is the number of pushes less the number of pops
\* that returned an item; a pop or a peek of an empty heap returns no value
\* and leaves the heap empty.
C18_LengthAndEmptyQueue ==
    /\ [](Len(queue) = pushes - popped)
    /\ [][ ((lastOp' = "pop" \/ lastOp' = "peek") /\ queue = <<>>)
              => (returned' = <<>> /\ queue' = <<>> /\ popped' = popped) ]_vars

\* the heap was emptied by pops and then popped once more
C18_Witness ==
    /\ lastOp = "pop"
    /\ returned = <<>>
    /\ queue = <<>>
    /\ pushes >= 2
    /\ popped = pushes

\* C19: simplifying the result of simplifyOrthogonalPath once more leaves it
\* as it is, and a path of at most two points is returned unchanged.
C19_SimplifyIdempotent ==
    /\ stage \in {"simplifiedTwice", "costed"} => twice = once
    /\ (stage \in {"simplified", "simplifiedTwice", "costed"} /\ Len(givenPath) <= 2)
          => once = givenPath

\* every segment of path q is horizontal or vertical and has a length
IsOrthogonalPath(q) ==
    \A i \in 1..(Len(q) - 1) :
        (q[i].x = q[i + 1].x) # (q[i].y = q[i + 1].y)

\* sum of the segment lengths of an orthogonal path
RECURSIVE SegmentSum(_, _)
SegmentSum(q, i) ==
    IF i >= Len(q) THEN 0
    ELSE Abs(q[i + 1].x - q[i].x) + Abs(q[i + 1].y - q[i].y) + SegmentSum(q, i + 1)

\* the interior points of q where the path turns: the cross product of the
\* incoming and the outgoing segment is not zero
Turns(q) ==
    {i \in 2..(Len(q) - 1) :
        (q[i].x - q[i - 1].x) * (q[i + 1].y - q[i].y)
            # (q[i].y - q[i - 1].y) * (q[i + 1].x - q[i].x)}

-----------------------------------------------------------------------------
(* isRouteValid and createObstaclesFromElements *)

\* the closed segment [a, b] and the closed rectangle r have a common point:
\* their extents overlap on both axes and the corners of r are not all
\* strictly on one side of the line through a and b
SegmentMeetsRect(a, b, r) ==
    LET side(cx, cy) == (b.x - a.x) * (cy - a.y) - (b.y - a.y) * (cx - a.x)
        corners == {<<r.x, r.y>>, <<r.x + r.w, r.y>>, <<r.x, r.y + r.h>>,
                    <<r.x + r.w, r.y + r.h>>}
    IN  /\ Max2(a.x, b.x) >= r.x
        /\ Min2(a.x, b.x) <= r.x + r.w
        /\ Max2(a.y, b.y) >= r.y
        /\ Min2(a.y, b.y) <= r.y + r.h
        /\ \E c \in corners : side(c[1], c[2]) >= 0
        /\ \E c \in corners : side(c[1], c[2]) <= 0

\* obstacle o's rectangle grown by its padding on every side
Padded(o) ==
    [x |-> o.bounds.x - o.padding, y |-> o.bounds.y - o.padding,
     w |-> o.bounds.w + 2 * o.padding, h |-> o.bounds.h + 2 * o.padding]

\* no segment of q has a common point with a padded obstacle of obs
ClearOfObstacles(q, obs) ==
    \A i \in 1..(Len(q) - 1) : \A k \in 1..Len(obs) :
        ~SegmentMeetsRect(q[i], q[i + 1], Padded(obs[k]))

\* C21: isRouteValid(route, obstacles) is true exactly when no segment between
\* consecutive route points has a point in common with an obstacle's rectangle
\* grown by its padding, the boundary included; it is true for an empty
\* obstacle list and for a route of fewer than two points.
C21_ValidIffClear ==
    validity # <<>> =>
        /\ validity[1] = ClearOfObstacles(givenRoute, givenObstacles)
        /\ givenObstacles = <<>> => validity[1]
        /\ Len(givenRoute) < 2 => validity[1]

\* a diagonal segment that only touches the corner of the padded rectangle,
\* well clear of the unpadded one, was found invalid
C21_Witness ==
    /\ validity = <<FALSE>>
    /\ givenRoute = <<P(0, 10), P(10, 0)>>
    /\ givenObstacles = <<createObstacleFromRect("b", 10, 10, 10, 10, 5)>>

\* the elements that yield an obstacle: the shapes that are not excluded
Kept == {i \in 1..Len(elements) :
            /\ elements[i].type = "shape"
            /\ \A k \in 1..Len(excludeIds) : excludeIds[k] # elements[i].id}

\* C22: createObstaclesFromElements(elements, excludeIds) returns, in input
\* order, exactly one obstacle per shape element whose id is not in
\* excludeIds, carrying the element's id, bounds equal to its props
\* {x, y, w, h} and padding 10; excluded elements and elements that are not
\* shapes yield no obstacle.
C22_OneObstaclePerKeptShape ==
    created # <<>> =>
        /\ Len(created[1]) = Cardinality(Kept)
        /\ \A i \in Kept :
            LET o == created[1][Cardinality({j \in Kept : j <= i})]
            IN  /\ o.id = elements[i].id
                /\ o.bounds = [x |-> Canvas(elements[i].props.x),
                               y |-> Canvas(elements[i].props.y),
                               w |-> Canvas(elements[i].props.w),
                               h |-> Canvas(elements[i].props.h)]
                /\ o.padding = Canvas(10)

\* an excluded shape and a linker were skipped, two shapes were kept in order
C22_Witness ==
    /\ created # <<>>
    /\ Len(elements) = 4
    /\ Len(created[1]) = 2
    /\ created[1][1].id = "shape2"
    /\ created[1][2].id = "shape3"
    /\ \E i \in 1..Len(elements) : elements[i].type = "linker"
    /\ excludeIds = <<"shape1">>
    /\ \E i \in 1..Len(elements) : elements[i].id = "shape1"

-----------------------------------------------------------------------------
(* the grid search *)

\* consecutive points of q share their x or their y
IsAxisAligned(q) ==
    \A i \in 1..(Len(q) - 1) : q[i].x = q[i + 1].x \/ q[i].y = q[i + 1].y

\* C23: every route that aStarRoute returns with success is an orthogonal
\* polyline: each of its segments, the segments that reconnect the exact
\* endpoints included, joins two points with the same x or the same y.
C23_AStarRouteOrthogonal ==
    (astarHasReturned /\ astarResult.success) => IsAxisAligned(astarResult.points)

\* the cost of the move from the cell stored under key p into a cell in
\* direction dir
StepCost(nodes, p, dir) ==
    config.orthogonalCost * config.gridSize
    + (IF nodes[p].direction # "null" /\ nodes[p].direction # dir
       THEN options.astarOptions.bendPenalty ELSE 0)

\* every stored node has f = g + h * weight
NodesScored ==
    \A k \in DOMAIN allNodes :
        allNodes[k].f = allNodes[k].g + allNodes[k].h * options.astarOptions.weight

\* the stored cell k is left alone or takes a strictly lower g, reached from
\* the cell just popped; a closed cell is left alone
NodeStep(k) ==
    LET old == allNodes[k]
        new == allNodes'[k]
    IN  /\ new.x = old.x /\ new.y = old.y /\ new.h = old.h
        /\ new.g <= old.g
        /\ new # old =>
            /\ new.g < old.g
            /\ new.parent = lastPop'
            /\ new.g = allNodes'[lastPop'[1]].g + StepCost(allNodes', lastPop'[1], new.direction)
        /\ k \in closedSet' => new = old

\* C24: during the search the g, parent and direction of a discovered cell
\* change only when the tentative g through the popped cell is strictly
\* lower, so g never increases; a cell in the closed set is never modified
\* again; every stored node has f = g + h * weight.
C24_RelaxationOnlyLowers ==
    /\ []NodesScored
    /\ [][\A k \in DOMAIN allNodes : k \in DOMAIN allNodes' /\ NodeStep(k)]_vars

\* the pass just made relaxed a queued cell: it is queued twice, is not
\* closed and has the popped cell as its parent
C24_Witness ==
    /\ pc = "aStarLoop"
    /\ closedSet # {}
    /\ \E i, j \in 1..Len(openHeap) :
        /\ i < j
        /\ openHeap[i] = openHeap[j]
        /\ openHeap[i] \notin closedSet
        /\ allNodes[openHeap[i]].parent = lastPop

\* cells are <<x, y>> pairs; the cells one grid step from a cell of frontier,
\* in bounds and not blocked
StepsFrom(frontier) ==
    {c \in UNION {{<<b[1] + config.gridSize, b[2]>>, <<b[1] - config.gridSize, b[2]>>,
                   <<b[1], b[2] + config.gridSize>>, <<b[1], b[2] - config.gridSize>>} :
                  b \in frontier} :
        /\ isInBounds(c[1], c[2], astarBounds)
        /\ ~isBlocked(c[1], c[2], obstacleGrid, config.gridSize, astarBounds)}

\* the cells reachable from the cells of seen by such steps
RECURSIVE Flood(_, _)
Flood(seen, frontier) ==
    LET next == StepsFrom(frontier) \ seen
    IN  IF next = {} THEN seen ELSE Flood(seen \cup next, next)

ReachableCells == Flood({<<startX, startY>>}, {<<startX, startY>>})

\* aStarRoute returned success = false with the queue empty and budget left
QueueEmptied ==
    /\ astarHasReturned
    /\ ~astarResult.success
    /\ pops < config.maxIterations

AboutToPop == pc = "aStarLoop" /\ loopCondition

\* C26: every node that aStarRoute pops has the smallest f of all the entries
\* the queue holds at that moment, although queued nodes have their f lowered
\* in place and are pushed a second time.
C26_PopsSmallestF ==
    AboutToPop =>
        \A i \in 1..Len(openHeap) :
            allNodes[heapPeek(openHeap)].f <= allNodes[openHeap[i]].f

\* C27: each grid cell is expanded at most once: the node that a pop returns
\* is never a cell that is already in the closed set.
C27_ExpandedOnce ==
    AboutToPop => heapPeek(openHeap) \notin closedSet

\* C28: in hybrid mode, whenever the straight segment from from to to has no
\* point in common with a padded obstacle, route returns the result of the
\* direct tier, the points [from, to] without a cost, and does not run the
\* grid search, whatever the distance between the endpoints.
C28_HybridDirectWhenClear ==
    (routeHasReturned /\ options.algorithm = "hybrid"
        /\ ClearOfObstacles(<<from, to>>, obstacles))
    => /\ result = RouteResult(<<from, to>>, TRUE, NoCost)
       /\ tier = 1
       /\ ~astarRan

\* endpoints 750 apart, an obstacle beside the segment: returned directly
C28_Witness ==
    /\ routeHasReturned
    /\ options.algorithm = "hybrid"
    /\ obstacles # <<>>
    /\ from = P(0, 0)
    /\ to = P(600, 450)
    /\ result.points = <<from, to>>
    /\ ~astarRan

\* aStarRoute popped the goal cell
GoalReached == astarHasReturned /\ astarResult.success

\* the keys met by following the parent links from key k, the first key
\* last; at most fuel links are followed
RECURSIVE ChainFrom(_, _)
ChainFrom(k, fuel) ==
    IF allNodes[k].parent = <<>> \/ fuel = 0 THEN <<k>>
    ELSE Append(ChainFrom(allNodes[k].parent[1], fuel - 1), k)

\* the parent chain of the goal node, from its far end to the goal
GoalChain == ChainFrom(lastPop[1], Cardinality(DOMAIN allNodes))

\* the axis of the step from cell a to cell b
StepAxis(a, b) == IF a.y = b.y THEN "h" ELSE "v"

\* orthogonalCost * gridSize per step of the chain, plus bendPenalty for every
\* step whose axis differs from that of the step before it
RECURSIVE ChainCost(_, _)
ChainCost(chain, i) ==
    IF i < 2 THEN 0
    ELSE ChainCost(chain, i - 1)
         + config.orthogonalCost * config.gridSize
         + (IF i >= 3 /\ StepAxis(allNodes[chain[i - 2]], allNodes[chain[i - 1]])
                         # StepAxis(allNodes[chain[i - 1]], allNodes[chain[i]])
            THEN options.astarOptions.bendPenalty ELSE 0)

\* C29: when aStarRoute succeeds, the cost it returns (the g of the goal node)
\* is the cost of the grid path rebuilt from the parent chain:
\* orthogonalCost * gridSize for every step plus bendPenalty for every change
\* of move direction along the chain.
C29_CostIsChainCost ==
    GoalReached =>
        /\ astarResult.cost = <<allNodes[lastPop[1]].g>>
        /\ astarResult.cost[1] = ChainCost(GoalChain, Len(GoalChain))

\* the goal was reached along a chain with a bend, after a queued cell had
\* been relaxed and queued a second time
C29_Witness ==
    /\ GoalReached
    /\ astarResult.cost[1] > config.orthogonalCost * config.gridSize * (Len(GoalChain) - 1)
    /\ \E i, j \in 1..Len(openHeap) : i < j /\ openHeap[i] = openHeap[j]

\* the cell of the node stored under key k lies in the obstacle grid
InObstacleGrid(k) ==
    toKey((allNodes[k].x - astarBounds.x) \div config.gridSize,
          (allNodes[k].y - astarBounds.y) \div config.gridSize) \in obstacleGrid

\* the cell of the node stored under key k lies in the search bounds
InSearchBounds(k) ==
    /\ astarBounds.x <= allNodes[k].x
    /\ allNodes[k].x <= astarBounds.x + astarBounds.w
    /\ astarBounds.y <= allNodes[k].y
    /\ allNodes[k].y <= astarBounds.y + astarBounds.h

\* C30: when aStarRoute reaches the goal, with a positive step cost, following
\* the parent links from the goal node ends without meeting a cell twice and
\* gives a grid path from the snapped start cell to the snapped goal cell:
\* consecutive cells are one grid step apart along one axis, and every cell
\* but the start cell is in bounds and not blocked.
C30_ParentChainIsGridPath ==
    (GoalReached /\ config.orthogonalCost * config.gridSize > 0) =>
        LET chain == GoalChain
            cell(i) == allNodes[chain[i]]
        IN  /\ allNodes[chain[1]].parent = <<>>
            /\ \A i, j \in 1..Len(chain) : i # j => chain[i] # chain[j]
            /\ cell(1).x = startX /\ cell(1).y = startY
            /\ cell(Len(chain)).x = endX /\ cell(Len(chain)).y = endY
            /\ \A i \in 2..Len(chain) :
                /\ Abs(cell(i).x - cell(i - 1).x) + Abs(cell(i).y - cell(i - 1).y)
                       = config.gridSize
                /\ cell(i).x = cell(i - 1).x \/ cell(i).y = cell(i - 1).y
                /\ InSearchBounds(chain[i])
                /\ ~InObstacleGrid(chain[i])

\* the goal was reached round an obstacle: the chain is longer than the
\* straight way between the two cells, and the search had cells to avoid
C30_Witness ==
    /\ GoalReached
    /\ obstacleGrid # {}
    /\ (Len(GoalChain) - 1) * config.gridSize > Abs(endX - startX) + Abs(endY - startY)

====
